---------------------------- MODULE Spec2Model ----------------------------
(***************************************************************************)
(* devicefarm-cli: the run-scheduling and artifact-retrieval workflow of   *)
(* src/devicefarm-cli.go (scheduleRun, uploadPut, createPoolFromDevice,    *)
(* lookupDeviceArn, lookupTestTypes, guessAppType, runReport,              *)
(* downloadArtifactsForSuite) as a state machine.                          *)
(*                                                                         *)
(* Strings the code takes apart or concatenates (file names, composite     *)
(* device keys, ARNs of suites and artifacts, destination paths) are       *)
(* sequences of tokens; strings it only compares or passes on are TLA+     *)
(* strings.  The Go empty string is "" for the latter and << >> for the    *)
(* former.                                                                 *)
(***************************************************************************)
EXTENDS Integers, Sequences, FiniteSets, TLC

VARIABLES
    args,       \* the parameters scheduleRun was called with (never change)
    srv,        \* what the remote service holds: devices, jobs, suites, artifacts
    pc,         \* position of the single control flow
    loc,        \* scheduleRun's locals
    up,         \* uploadPut's frame
    rep,        \* runReport's / downloadArtifactsForSuite's frame
    srvUpload,  \* server-side status of the upload being waited for
    srvRun,     \* server-side status of the scheduled run
    calls,      \* every remote request issued so far, in order
    files,      \* local report tree: path -> id of the artifact it holds ("" if empty)
    passes,     \* per report pass, the downloads it made, in order
    result      \* how the process ended: ok, error, fatal or panic; running before

vars ==
    <<args, srv, pc, loc, up, rep, srvUpload, srvRun, calls, files, passes, result>>

---------------------------------------------------------------------------
(* Bounds of the model.                                                    *)

\* status checks one poll loop may issue before the model stops following it
MaxPolls ==
    2

\* longest file name (in characters) handed to guessAppType
MaxFileLen ==
    5

\* most devices in a list-devices answer
MaxDevices ==
    2

\* most suites of the job in the wide report listings
MaxSuites ==
    2

\* most artifacts per category in the wide report listings
MaxArtifacts ==
    2

\* report passes over one run (the first one, then re-runs of the report command)
MaxPasses ==
    2

\* the pages in which the service answers one category's artifact listing
MaxPages ==
    2

---------------------------------------------------------------------------
(* Token strings.                                                          *)

\* strings.HasPrefix(s, prefix)
HasPrefix(s, prefix) ==
    /\ Len(prefix) <= Len(s)
    /\ SubSeq(s, 1, Len(prefix)) = prefix

\* strings.ToLower on one character of the file-name alphabet
LowerChar(c) ==
    CASE c = "A" -> "a"
      [] c = "P" -> "p"
      [] c = "K" -> "k"
      [] c = "I" -> "i"
      [] OTHER -> c

\* strings.ToLower
ToLower(s) ==
    [i \in 1..Len(s) |-> LowerChar(s[i])]

\* filepath.Ext: the suffix beginning at the final dot of the final path
\* element, empty if there is no dot; scans backwards and stops at a separator.
RECURSIVE ExtFrom(_, _)
ExtFrom(path, i) ==
    IF i < 1 \/ path[i] = "/"
    THEN << >>
    ELSE IF path[i] = "."
         THEN SubSeq(path, i, Len(path))
         ELSE ExtFrom(path, i - 1)

Ext(path) ==
    ExtFrom(path, Len(path))

\* the decimal digits of n, most significant first (fmt's %d for n >= 0)
RECURSIVE Itoa(_)
Itoa(n) ==
    LET d == <<"0", "1", "2", "3", "4", "5", "6", "7", "8", "9">>
    IN  IF n < 10 THEN <<d[n + 1]>> ELSE Itoa(n \div 10) \o <<d[(n % 10) + 1]>>

---------------------------------------------------------------------------
(* Pure functions of the program.                                          *)

NoErr ==
    ""

ErrGuessApp ==
    "Can't guess App Type"

ErrTestType ==
    "Could not guess test type, you can use the BUILTIN_FUZZ or BUILTIN_EXPLORER"

ErrNoDevice ==
    "we need a device/devicepool to run on"

ErrDeviceNotFound ==
    "failed to find a device with name"

\* guessAppType without the lower-casing of the file name
guessAppType_caseSensitive(fileName) ==
    LET extension == Ext(fileName)
    IN  IF extension = <<".", "a", "p", "k">>
        THEN [appType |-> "ANDROID_APP", err |-> NoErr]
        ELSE IF extension = <<".", "i", "p", "a">>
             THEN [appType |-> "IOS_APP", err |-> NoErr]
             ELSE [appType |-> "", err |-> ErrGuessApp]

guessAppType(fileName) ==
    LET lowerCaseFileName == ToLower(fileName)
        extension == Ext(lowerCaseFileName)
    IN  IF extension = <<".", "a", "p", "k">>
        THEN [appType |-> "ANDROID_APP", err |-> NoErr]
        ELSE IF extension = <<".", "i", "p", "a">>
             THEN [appType |-> "IOS_APP", err |-> NoErr]
             ELSE [appType |-> "", err |-> ErrGuessApp]

TypesOf(pkg, spec) ==
    [testPackageType |-> pkg, testSpecType |-> spec, err |-> NoErr]

\* the last test of lookupTestTypes without its BUILTIN_FUZZ alternative
IsBuiltin_explorerOnly(testType) ==
    testType = "BUILTIN_EXPLORER"

\* testType == "BUILTIN_EXPLORER" || testType == "BUILTIN_FUZZ"
IsBuiltin(testType) ==
    testType = "BUILTIN_EXPLORER" \/ testType = "BUILTIN_FUZZ"

lookupTestTypes(testType) ==
    IF testType = "APPIUM_JAVA_JUNIT"
    THEN TypesOf("APPIUM_JAVA_JUNIT_TEST_PACKAGE", "APPIUM_JAVA_JUNIT_TEST_SPEC")
    ELSE IF testType = "INSTRUMENTATION"
    THEN TypesOf("INSTRUMENTATION_TEST_PACKAGE", "INSTRUMENTATION_TEST_SPEC")
    ELSE IF testType = "UIAUTOMATION"
    THEN TypesOf("UIAUTOMATION_TEST_PACKAGE", "")
    ELSE IF testType = "APPIUM_JAVA_TESTNG"
    THEN TypesOf("APPIUM_JAVA_TESTNG_TEST_PACKAGE", "APPIUM_JAVA_TESTNG_TEST_SPEC")
    ELSE IF testType = "CALABASH"
    THEN TypesOf("CALABASH_TEST_PACKAGE", "")
    ELSE IF testType = "UIAUTOMATER"
    THEN TypesOf("UIAUTOMATER_TEST_PACKAGE", "")
    ELSE IF testType = "XCTEST"
    THEN TypesOf("XCTEST_TEST_PACKAGE", "XCTEST_UI_TEST_SPEC")
    ELSE IF testType = "APPIUM_NODE"
    THEN TypesOf("APPIUM_NODE_TEST_PACKAGE", "APPIUM_NODE_TEST_SPEC")
    ELSE IF testType = "APPIUM_PYTHON"
    THEN TypesOf("APPIUM_PYTHON_TEST_PACKAGE", "APPIUM_PYTHON_TEST_SPEC")
    ELSE IF testType = "APPIUM_RUBY"
    THEN TypesOf("APPIUM_RUBY_TEST_PACKAGE", "APPIUM_RUBY_TEST_SPEC")
    ELSE IF testType = "APPIUM_WEB_JAVA_JUNIT"
    THEN TypesOf("APPIUM_WEB_JAVA_JUNIT_TEST_PACKAGE", "APPIUM_WEB_JAVA_JUNIT_TEST_SPEC")
    ELSE IF testType = "APPIUM_WEB_JAVA_TESTNG"
    THEN TypesOf("APPIUM_WEB_JAVA_TESTNG_TEST_PACKAGE", "APPIUM_WEB_JAVA_TESTNG_TEST_SPEC")
    ELSE IF testType = "APPIUM_WEB_PYTHON"
    THEN TypesOf("APPIUM_WEB_PYTHON_TEST_PACKAGE", "APPIUM_WEB_PYTHON_TEST_SPEC")
    ELSE IF testType = "APPIUM_WEB_NODE"
    THEN TypesOf("APPIUM_WEB_NODE_TEST_PACKAGE", "APPIUM_WEB_NODE_TEST_SPEC")
    ELSE IF testType = "APPIUM_WEB_RUBY"
    THEN TypesOf("APPIUM_WEB_RUBY_TEST_PACKAGE", "APPIUM_WEB_RUBY_TEST_SPEC")
    ELSE IF IsBuiltin(testType)
    THEN TypesOf("NONE", "")
    ELSE [testPackageType |-> "", testSpecType |-> "", err |-> ErrTestType]

\* the names the schedule command's --test-type usage text lists
AdvertisedTestTypes ==
    {"UIAUTOMATOR", "CALABASH", "APPIUM_JAVA_TESTNG", "APPIUM_NODE", "APPIUM_PYTHON",
     "APPIUM_RUBY", "UIAUTOMATION", "BUILTIN_FUZZ", "INSTRUMENTATION",
     "APPIUM_JAVA_JUNIT", "APPIUM_WEB_JAVA_TESTING", "APPIUM_WEB_JAVA_JUNIT",
     "APPIUM_WEB_PYTHON", "APPIUM_WEB_NODE", "APPIUM_WEB_RUBY", "BUILTIN_EXPLORER",
     "XCTEST"}

\* the composite key of a listed device: fmt.Sprintf("%s - %s", name, os)
DeviceKey(m) ==
    m.name \o <<" - ">> \o m.os

\* the devices map of lookupDeviceArn after the first i devices: a later device
\* with the same key overwrites an earlier one
RECURSIVE DevicesMap(_, _)
DevicesMap(devs, i) ==
    IF i = 0
    THEN << >>
    ELSE LET m == DevicesMap(devs, i - 1)
             key == DeviceKey(devs[i])
         IN  [k \in DOMAIN m \cup {key} |-> IF k = key THEN devs[i].arn ELSE m[k]]

\* the Arn lookupDeviceArn finds: the first device with the key instead of the last
LookupArn_firstWins(devs, deviceName) ==
    LET hits == {i \in 1..Len(devs) : DeviceKey(devs[i]) = deviceName}
    IN  IF hits = {}
        THEN ""
        ELSE devs[CHOOSE i \in hits : \A j \in hits : i <= j].arn

\* devices[deviceName] of lookupDeviceArn: "" for a key the map does not hold
LookupArn(devs, deviceName) ==
    LET devices == DevicesMap(devs, Len(devs))
    IN  IF deviceName \in DOMAIN devices THEN devices[deviceName] ELSE ""

\* the rule value createPoolFromDevice builds with a second, empty element
PoolRuleValue_twoElements(deviceArn) ==
    <<"[", "\"", deviceArn, "\"", ",", "\"", "", "\"", "]">>

\* the rule value createPoolFromDevice builds: "[\"" + deviceArn + "\"]"
PoolRuleValue(deviceArn) ==
    <<"[", "\"">> \o <<deviceArn>> \o <<"\"", "]">>

\* the CreateDevicePoolInput of createPoolFromDevice
CreatePoolRequest(poolName, deviceArn, projectArn) ==
    [Name |-> poolName,
     Description |-> <<"autocreated pool ">> \o poolName,
     ProjectArn |-> projectArn,
     Rules |-> << [Attribute |-> "Arn",
                   Operator |-> "IN",
                   Value |-> PoolRuleValue(deviceArn)] >>]

\* path.Base: the last element of the path, trailing slashes removed
RECURSIVE StripSlashes(_)
StripSlashes(p) ==
    IF Len(p) > 0 /\ p[Len(p)] = "/"
    THEN StripSlashes(SubSeq(p, 1, Len(p) - 1))
    ELSE p

Base(p) ==
    IF p = << >>
    THEN <<".">>
    ELSE LET q == StripSlashes(p)
             slashes == {i \in 1..Len(q) : q[i] = "/"}
             last == IF slashes = {} THEN 0
                     ELSE CHOOSE i \in slashes : \A j \in slashes : j <= i
             r == SubSeq(q, last + 1, Len(q))
         IN  IF r = << >> THEN <<"/">> ELSE r

---------------------------------------------------------------------------
(* The remote service, as far as the program observes it.                  *)

UploadStatuses ==
    {"INITIALIZING", "PROCESSING", "SUCCEEDED", "FAILED"}

\* what a get-upload may answer after it answered s: SUCCEEDED and FAILED are final
UploadNext(s) ==
    CASE s = "INITIALIZING" -> {"INITIALIZING", "PROCESSING", "SUCCEEDED", "FAILED"}
      [] s = "PROCESSING" -> {"PROCESSING", "SUCCEEDED", "FAILED"}
      [] OTHER -> {s}

RunStatuses ==
    {"PENDING", "RUNNING", "COMPLETED"}

\* what a get-run may answer after it answered s: COMPLETED is final
RunNext(s) ==
    CASE s = "PENDING" -> {"PENDING", "RUNNING", "COMPLETED"}
      [] s = "RUNNING" -> {"RUNNING", "COMPLETED"}
      [] OTHER -> {s}

\* the ids the service issues for the uploads it creates, in order
UploadArns ==
    <<"upload1", "upload2", "upload3">>

PoolArn ==
    "pool1"

RunArn ==
    "run1"

ErrRemote ==
    "remote call failed"

ErrOpen ==
    "open: no such file or directory"

\* one remote request as the log keeps it: the function issuing it, the
\* operation, the request, whether it succeeded and the id or status answered
Call(site, op, req, ok, out) ==
    [site |-> site, op |-> op, req |-> req, ok |-> ok, out |-> out]

\* the requests of one operation, in order
CallsOf(op) ==
    SelectSeq(calls, LAMBDA c : c.op = op)

---------------------------------------------------------------------------
(* Control flow.                                                           *)

Running ==
    [kind |-> "running", err |-> NoErr]

NoUpload ==
    [caller |-> "", path |-> << >>, kind |-> "", name |-> << >>, arn |-> "",
     status |-> "", polls |-> 0]

NoReport ==
    [artifacts |-> [t \in {"LOG", "SCREENSHOT", "FILE"} |-> << >>],
     t |-> 1, jobs |-> << >>, j |-> 1, suites |-> << >>, s |-> 1,
     work |-> << >>, k |-> 1]

\* the process ends: a returned error ("error"), log.Fatal ("fatal"), a panic
\* ("panic") or a normal return ("ok")
Finish(kind, err) ==
    /\ pc' = "done"
    /\ result' = [kind |-> kind, err |-> err]

\* the poll loop left after the first answered check, whatever the status
UploadDone_anyStatus(status) ==
    status # ""

\* the poll loop left on either final status of an upload
UploadDone_anyFinal(status) ==
    status \in {"SUCCEEDED", "FAILED"}

\* for status != "SUCCEEDED": the poll loop of uploadPut
UploadDone(status) ==
    status = "SUCCEEDED"

\* a failed status check is followed by the next turn of the loop
CheckFailed_retried(ok) ==
    FALSE

\* if err != nil { return nil, err } after svc.GetUpload
CheckFailed(ok) ==
    ~ok

\* the run poll loop left after the first answered check, whatever the status
RunDone_anyStatus(status) ==
    status # ""

\* for status != "COMPLETED": the poll loop of scheduleRun
RunDone(status) ==
    status = "COMPLETED"

\* scheduleRun: upload the app file if there is one (guessing its type)
SchedApp ==
    /\ pc = "sched_app"
    /\ IF args.appFile # << >>
       THEN LET g == guessAppType(args.appFile)
            IN  IF loc.appType = ""
                THEN /\ loc' = [loc EXCEPT !.appType = g.appType]
                     /\ IF g.err # NoErr
                        THEN /\ Finish("error", g.err)
                             /\ UNCHANGED up
                        ELSE /\ pc' = "up_open"
                             /\ up' = [NoUpload EXCEPT !.caller = "app",
                                                       !.path = args.appFile,
                                                       !.kind = g.appType]
                             /\ UNCHANGED result
                ELSE /\ pc' = "up_open"
                     /\ up' = [NoUpload EXCEPT !.caller = "app",
                                               !.path = args.appFile,
                                               !.kind = loc.appType]
                     /\ UNCHANGED <<loc, result>>
       ELSE /\ pc' = "sched_pool"
            /\ UNCHANGED <<loc, up, result>>
    /\ UNCHANGED <<args, srv, rep, srvUpload, srvRun, calls, files, passes>>

\* uploadPut: os.Open of the file; a failure is returned to scheduleRun, which
\* returns it
UpOpen ==
    /\ pc = "up_open"
    /\ \/ /\ pc' = "up_create"
          /\ up' = [up EXCEPT !.name = Base(up.path)]
          /\ UNCHANGED result
       \/ /\ Finish("error", ErrOpen)
          /\ UNCHANGED up
    /\ UNCHANGED <<args, srv, loc, rep, srvUpload, srvRun, calls, files, passes>>

\* uploadPut: svc.CreateUpload; a failure is log.Fatal
UpCreate ==
    /\ pc = "up_create"
    /\ LET req == [Name |-> up.name, ProjectArn |-> args.projectArn,
                   Type |-> up.kind, ContentType |-> "application/octet-stream"]
           arn == UploadArns[Len(SelectSeq(calls,
                      LAMBDA c : c.op = "CreateUpload" /\ c.ok)) + 1]
       IN  \/ /\ calls' = Append(calls, Call("uploadPut", "CreateUpload", req, TRUE, arn))
              /\ up' = [up EXCEPT !.arn = arn]
              /\ srvUpload' = "INITIALIZING"
              /\ pc' = "up_put"
              /\ UNCHANGED result
           \/ /\ calls' = Append(calls, Call("uploadPut", "CreateUpload", req, FALSE, ""))
              /\ Finish("fatal", ErrRemote)
              /\ UNCHANGED <<up, srvUpload>>
    /\ UNCHANGED <<args, srv, loc, rep, srvRun, files, passes>>

\* uploadPut: the HTTP PUT of the file to the presigned URL; a failure is log.Fatal
UpPut ==
    /\ pc = "up_put"
    /\ LET req == [Arn |-> up.arn]
       IN  \/ /\ calls' = Append(calls, Call("uploadPut", "PUT", req, TRUE, ""))
              /\ pc' = "up_poll"
              /\ UNCHANGED result
           \/ /\ calls' = Append(calls, Call("uploadPut", "PUT", req, FALSE, ""))
              /\ Finish("fatal", ErrRemote)
    /\ UNCHANGED <<args, srv, loc, up, rep, srvUpload, srvRun, files, passes>>

\* uploadPut: one turn of the poll loop (sleep, svc.GetUpload); an error is
\* returned, status SUCCEEDED returns the Upload to the calling place of scheduleRun
UpPoll ==
    /\ pc = "up_poll"
    /\ up.polls < MaxPolls
    /\ LET req == [Arn |-> up.arn]
       IN  \/ \E s \in UploadNext(srvUpload) :
                /\ calls' = Append(calls, Call("uploadPut", "GetUpload", req, TRUE, s))
                /\ srvUpload' = s
                /\ up' = [up EXCEPT !.status = s, !.polls = @ + 1]
                /\ IF UploadDone(s)
                   THEN CASE up.caller = "app" ->
                               /\ loc' = [loc EXCEPT !.appArn = up.arn]
                               /\ pc' = "sched_pool"
                          [] up.caller = "test" ->
                               /\ loc' = [loc EXCEPT !.testPackageArn = up.arn]
                               /\ pc' = "sched_spec"
                          [] up.caller = "spec" ->
                               /\ loc' = [loc EXCEPT !.testSpecArn = up.arn]
                               /\ pc' = "sched_run"
                   ELSE UNCHANGED <<loc, pc>>
                /\ UNCHANGED result
           \/ /\ calls' = Append(calls, Call("uploadPut", "GetUpload", req, FALSE, ""))
              /\ up' = [up EXCEPT !.polls = @ + 1]
              /\ IF CheckFailed(FALSE)
                 THEN Finish("error", ErrRemote)
                 ELSE UNCHANGED <<pc, result>>
              /\ UNCHANGED <<loc, srvUpload>>
    /\ UNCHANGED <<args, srv, rep, srvRun, files, passes>>

\* the error of lookupTestTypes is dropped
TypesFailed_ignored(t) ==
    FALSE

\* if err != nil, after lookupTestTypes
TypesFailed(t) ==
    t.err # NoErr

\* the pool is resolved from the device also when a pool was given
NoPoolGiven_deviceFirst(l) ==
    l.devicePoolArn = "" \/ args.deviceArn # << >>

\* if devicePoolArn == ""
NoPoolGiven(l) ==
    l.devicePoolArn = ""

\* the device pool step with the test type examined first
SchedPool_typesFirst ==
    /\ pc = "sched_pool"
    /\ IF TypesFailed(lookupTestTypes(args.testType))
       THEN Finish("error", ErrTestType)
       ELSE IF NoPoolGiven(loc)
            THEN IF args.deviceArn # << >>
                 THEN /\ pc' = "pool_list"
                      /\ UNCHANGED result
                 ELSE Finish("error", ErrNoDevice)
            ELSE /\ pc' = "sched_types"
                 /\ UNCHANGED result
    /\ UNCHANGED <<args, srv, loc, up, rep, srvUpload, srvRun, calls, files, passes>>

\* scheduleRun: an explicit device pool is used as it is; otherwise one is made
\* from the device name, and without either the call returns an error
SchedPool ==
    /\ pc = "sched_pool"
    /\ IF NoPoolGiven(loc)
       THEN IF args.deviceArn # << >>
            THEN /\ pc' = "pool_list"
                 /\ UNCHANGED result
            ELSE Finish("error", ErrNoDevice)
       ELSE /\ pc' = "sched_types"
            /\ UNCHANGED result
    /\ UNCHANGED <<args, srv, loc, up, rep, srvUpload, srvRun, calls, files, passes>>

\* createPoolFromDevice -> lookupDeviceArn: svc.ListDevices and the search of the
\* composite key; a failed listing and a key not found are both log.Fatal (failOnErr)
PoolList ==
    /\ pc = "pool_list"
    /\ \/ LET Arn == LookupArn(srv.devices, args.deviceArn)
          IN  /\ calls' = Append(calls, Call("lookupDeviceArn", "ListDevices", << >>, TRUE, ""))
              /\ IF Arn # ""
                 THEN /\ loc' = [loc EXCEPT !.foundArn = Arn]
                      /\ pc' = "pool_create"
                      /\ UNCHANGED result
                 ELSE /\ Finish("fatal", ErrDeviceNotFound)
                      /\ UNCHANGED loc
       \/ /\ calls' = Append(calls, Call("lookupDeviceArn", "ListDevices", << >>, FALSE, ""))
          /\ Finish("fatal", ErrRemote)
          /\ UNCHANGED loc
    /\ UNCHANGED <<args, srv, up, rep, srvUpload, srvRun, files, passes>>

\* createPoolFromDevice: svc.CreateDevicePool; a failure is returned to
\* scheduleRun, which returns it
PoolCreate ==
    /\ pc = "pool_create"
    /\ LET req == CreatePoolRequest(args.deviceArn, loc.foundArn, args.projectArn)
       IN  \/ /\ calls' = Append(calls, Call("createPoolFromDevice", "CreateDevicePool", req, TRUE, PoolArn))
              /\ loc' = [loc EXCEPT !.devicePoolArn = PoolArn]
              /\ pc' = "sched_types"
              /\ UNCHANGED result
           \/ /\ calls' = Append(calls, Call("createPoolFromDevice", "CreateDevicePool", req, FALSE, ""))
              /\ Finish("error", ErrRemote)
              /\ UNCHANGED loc
    /\ UNCHANGED <<args, srv, up, rep, srvUpload, srvRun, files, passes>>

\* scheduleRun: map the test type
SchedTypes ==
    /\ pc = "sched_types"
    /\ LET t == lookupTestTypes(args.testType)
       IN  /\ loc' = [loc EXCEPT !.testPackageType = t.testPackageType,
                                 !.testSpecType = t.testSpecType]
           /\ IF TypesFailed(t)
              THEN Finish("error", t.err)
              ELSE /\ pc' = "sched_test"
                   /\ UNCHANGED result
    /\ UNCHANGED <<args, srv, up, rep, srvUpload, srvRun, calls, files, passes>>

\* scheduleRun: upload the test package file if there is one
SchedTest ==
    /\ pc = "sched_test"
    /\ IF args.testPackageFile # << >>
       THEN /\ pc' = "up_open"
            /\ up' = [NoUpload EXCEPT !.caller = "test",
                                      !.path = args.testPackageFile,
                                      !.kind = loc.testPackageType]
       ELSE /\ pc' = "sched_spec"
            /\ UNCHANGED up
    /\ UNCHANGED <<args, srv, loc, rep, srvUpload, srvRun, calls, files, passes, result>>

\* scheduleRun: upload the test spec file if there is one
SchedSpec ==
    /\ pc = "sched_spec"
    /\ IF args.testSpecFile # << >>
       THEN /\ pc' = "up_open"
            /\ up' = [NoUpload EXCEPT !.caller = "spec",
                                      !.path = args.testSpecFile,
                                      !.kind = loc.testSpecType]
       ELSE /\ pc' = "sched_run"
            /\ UNCHANGED up
    /\ UNCHANGED <<args, srv, loc, rep, srvUpload, srvRun, calls, files, passes, result>>

\* the ScheduleRunInput with the test spec id of the command line, the upload of
\* a test spec file left aside
ScheduleRunRequest_argSpec(l) ==
    [AppArn |-> l.appArn, DevicePoolArn |-> l.devicePoolArn, Name |-> args.runName,
     ProjectArn |-> args.projectArn,
     Test |-> [Type |-> args.testType, TestPackageArn |-> l.testPackageArn,
               TestSpecArn |-> IF args.testSpecArn # "" THEN <<args.testSpecArn>>
                               ELSE << >>]]

\* the ScheduleRunInput with the test spec always set, also to the empty string
ScheduleRunRequest_alwaysSpec(l) ==
    [AppArn |-> l.appArn, DevicePoolArn |-> l.devicePoolArn, Name |-> args.runName,
     ProjectArn |-> args.projectArn,
     Test |-> [Type |-> args.testType, TestPackageArn |-> l.testPackageArn,
               TestSpecArn |-> <<l.testSpecArn>>]]

\* the ScheduleRunInput of scheduleRun; an optional field is << >> when it is nil
ScheduleRunRequest(l) ==
    [AppArn |-> l.appArn, DevicePoolArn |-> l.devicePoolArn, Name |-> args.runName,
     ProjectArn |-> args.projectArn,
     Test |-> [Type |-> args.testType, TestPackageArn |-> l.testPackageArn,
               TestSpecArn |-> IF l.testSpecArn # "" THEN <<l.testSpecArn>> ELSE << >>]]

\* scheduleRun: svc.ScheduleRun; a failure is returned
SchedRun ==
    /\ pc = "sched_run"
    /\ LET req == ScheduleRunRequest(loc)
       IN  \/ /\ calls' = Append(calls, Call("scheduleRun", "ScheduleRun", req, TRUE, RunArn))
              /\ loc' = [loc EXCEPT !.runArn = RunArn, !.status = "", !.polls = 0]
              /\ srvRun' = "PENDING"
              /\ pc' = "sched_poll"
              /\ UNCHANGED result
           \/ /\ calls' = Append(calls, Call("scheduleRun", "ScheduleRun", req, FALSE, ""))
              /\ Finish("error", ErrRemote)
              /\ UNCHANGED <<loc, srvRun>>
    /\ UNCHANGED <<args, srv, up, rep, srvUpload, files, passes>>

\* scheduleRun: one turn of the poll loop (sleep, svc.GetRun); an error is
\* returned, status COMPLETED goes on to runReport
SchedPoll ==
    /\ pc = "sched_poll"
    /\ loc.polls < MaxPolls
    /\ LET req == [Arn |-> loc.runArn]
       IN  \/ \E s \in RunNext(srvRun) :
                /\ calls' = Append(calls, Call("scheduleRun", "GetRun", req, TRUE, s))
                /\ srvRun' = s
                /\ loc' = [loc EXCEPT !.status = s, !.polls = @ + 1]
                /\ IF RunDone(s)
                   THEN /\ pc' = "rep_getrun"
                        /\ rep' = NoReport
                        /\ passes' = Append(passes, << >>)
                   ELSE UNCHANGED <<pc, rep, passes>>
                /\ UNCHANGED result
           \/ /\ calls' = Append(calls, Call("scheduleRun", "GetRun", req, FALSE, ""))
              /\ loc' = [loc EXCEPT !.polls = @ + 1]
              /\ Finish("error", ErrRemote)
              /\ UNCHANGED <<srvRun, rep, passes>>
    /\ UNCHANGED <<args, srv, up, srvUpload, files>>

---------------------------------------------------------------------------
(* runReport and downloadArtifactsForSuite.                                *)

ArtifactTypes ==
    <<"LOG", "SCREENSHOT", "FILE">>

\* strings.NewReplacer(":suite:", ":artifact:").Replace(suiteArn)
ArtifactPrefix(suiteArn) ==
    [i \in 1..Len(suiteArn) |->
        IF suiteArn[i] = ":suite:" THEN ":artifact:" ELSE suiteArn[i]]

\* fmt.Sprintf("%s - %s - %s", job.Name, job.Device.Model, job.Device.Os)
JobFriendlyName(job) ==
    job.name \o <<" - ">> \o job.model \o <<" - ">> \o job.os

\* fmt.Sprintf("report/%s/%s", jobFriendlyName, suite.Name)
DirPrefix(job, suite) ==
    <<"report/">> \o JobFriendlyName(job) \o <<"/">> \o suite.name

\* fmt.Sprintf("%s/%d_%s.%s", dirPrefix, count, artifact.Name, artifact.Extension)
FileName(dirPrefix, count, artifact) ==
    dirPrefix \o <<"/">> \o Itoa(count) \o <<"_">> \o artifact.name \o <<".">>
        \o artifact.extension

\* the index of the first matched artifact of a listing, were it to continue
\* after the files already in the report tree
FirstCount_afterExisting ==
    Cardinality(DOMAIN files)

\* count := 0
FirstCount ==
    0

\* strings.HasPrefix(*artifact.Arn, artifactPrefix)
Matches(arn, artifactPrefix) ==
    HasPrefix(arn, artifactPrefix)

\* the inner loop with the count raised for every artifact of the listing,
\* matched or not
RECURSIVE ScanList_countAll(_, _, _, _, _, _)
ScanList_countAll(dirPrefix, artifactPrefix, artifactType, list, i, count) ==
    IF i > Len(list)
    THEN << >>
    ELSE IF Matches(list[i].arn, artifactPrefix)
         THEN << [fileName |-> FileName(dirPrefix, count, list[i]),
                  artifact |-> list[i],
                  artifactType |-> artifactType] >>
              \o ScanList_countAll(dirPrefix, artifactPrefix, artifactType, list,
                                   i + 1, count + 1)
         ELSE ScanList_countAll(dirPrefix, artifactPrefix, artifactType, list,
                                i + 1, count + 1)

\* the inner loop of downloadArtifactsForSuite over one listing, from artifact i
\* on: the downloads it makes, in order
RECURSIVE ScanList(_, _, _, _, _, _)
ScanList(dirPrefix, artifactPrefix, artifactType, list, i, count) ==
    IF i > Len(list)
    THEN << >>
    ELSE IF Matches(list[i].arn, artifactPrefix)
         THEN << [fileName |-> FileName(dirPrefix, count, list[i]),
                  artifact |-> list[i],
                  artifactType |-> artifactType] >>
              \o ScanList(dirPrefix, artifactPrefix, artifactType, list, i + 1, count + 1)
         ELSE ScanList(dirPrefix, artifactPrefix, artifactType, list, i + 1, count)

\* the loop over the listings kept for one category
RECURSIVE ScanTyped(_, _, _, _, _)
ScanTyped(dirPrefix, artifactPrefix, artifactType, typedArtifacts, n) ==
    IF n > Len(typedArtifacts)
    THEN << >>
    ELSE ScanList(dirPrefix, artifactPrefix, artifactType,
                  typedArtifacts[n].Artifacts, 1, FirstCount)
         \o ScanTyped(dirPrefix, artifactPrefix, artifactType, typedArtifacts, n + 1)

\* downloadArtifactsForSuite: the downloads it makes for one suite, in order
SuiteDownloads(dirPrefix, allArtifacts, suite) ==
    LET artifactPrefix == ArtifactPrefix(suite.arn)
        T(n) == ScanTyped(dirPrefix, artifactPrefix, ArtifactTypes[n],
                          allArtifacts[ArtifactTypes[n]], 1)
    IN  T(1) \o T(2) \o T(3)

\* the error is logged and execution goes on
failOnErr_logOnly(ok) ==
    TRUE

\* failOnErr(err, reason): whether execution goes on after it; with an error it
\* does not (log.Fatal)
failOnErr(ok) ==
    ok

\* the record a with the fields of r replaced or added
With(a, r) ==
    [f \in DOMAIN a \cup DOMAIN r |-> IF f \in DOMAIN r THEN r[f] ELSE a[f]]

\* f with x bound to v
Bind(f, x, v) ==
    [y \in DOMAIN f \cup {x} |-> IF y = x THEN v ELSE f[y]]

\* the report command: runReport on the run once more, in a new process
ReportCmd ==
    /\ args.cmd = "report"
    /\ pc = "done"
    /\ result.kind = "ok"
    /\ loc.runArn # ""
    /\ Len(passes) < MaxPasses
    /\ pc' = "rep_getrun"
    /\ rep' = NoReport
    /\ passes' = Append(passes, << >>)
    /\ result' = Running
    /\ UNCHANGED <<args, srv, loc, up, srvUpload, srvRun, calls, files>>

\* runReport: svc.GetRun; a failure is log.Fatal (failOnErr)
RepGetRun ==
    /\ pc = "rep_getrun"
    /\ LET req == [Arn |-> loc.runArn]
       IN  \/ /\ calls' = Append(calls, Call("runReport", "GetRun", req, TRUE, srvRun))
              /\ pc' = "rep_artifacts"
              /\ UNCHANGED result
           \/ /\ calls' = Append(calls, Call("runReport", "GetRun", req, FALSE, ""))
              /\ IF failOnErr(FALSE)
                 THEN /\ pc' = "rep_artifacts"
                      /\ UNCHANGED result
                 ELSE Finish("fatal", ErrRemote)
    /\ UNCHANGED <<args, srv, loc, up, rep, srvUpload, srvRun, files, passes>>

\* runReport: svc.ListArtifacts for the next category; the answer (its first
\* page) is appended to the category's entry of the map; a failure is log.Fatal
RepListArtifacts ==
    /\ pc = "rep_artifacts"
    /\ LET artifactType == ArtifactTypes[rep.t]
           req == [Arn |-> loc.runArn, Type |-> artifactType]
           pages == srv.artifacts[artifactType]
           artifactResp == [Artifacts |-> pages[1], NextToken |-> Len(pages) > 1]
       IN  \/ /\ calls' = Append(calls,
                      Call("runReport", "ListArtifacts", req, TRUE, ""))
              /\ rep' = [rep EXCEPT
                            !.artifacts[artifactType] = Append(@, artifactResp),
                            !.t = @ + 1]
              /\ pc' = IF rep.t = Len(ArtifactTypes) THEN "rep_jobs" ELSE "rep_artifacts"
              /\ UNCHANGED result
           \/ /\ calls' = Append(calls,
                      Call("runReport", "ListArtifacts", req, FALSE, ""))
              /\ IF failOnErr(FALSE)
                 THEN /\ rep' = [rep EXCEPT
                               !.artifacts[artifactType] =
                                   Append(@, [Artifacts |-> << >>, NextToken |-> FALSE]),
                               !.t = @ + 1]
                      /\ pc' = IF rep.t = Len(ArtifactTypes)
                               THEN "rep_jobs" ELSE "rep_artifacts"
                      /\ UNCHANGED result
                 ELSE /\ Finish("fatal", ErrRemote)
                      /\ UNCHANGED rep
    /\ UNCHANGED <<args, srv, loc, up, srvUpload, srvRun, files, passes>>

\* runReport: svc.ListJobs; a failure is log.Fatal; without jobs the pass is over
RepListJobs ==
    /\ pc = "rep_jobs"
    /\ LET req == [Arn |-> loc.runArn]
       IN  \/ /\ calls' = Append(calls, Call("runReport", "ListJobs", req, TRUE, ""))
              /\ rep' = [rep EXCEPT !.jobs = srv.jobs, !.j = 1]
              /\ IF srv.jobs = << >>
                 THEN Finish("ok", NoErr)
                 ELSE /\ pc' = "rep_suites"
                      /\ UNCHANGED result
           \/ /\ calls' = Append(calls, Call("runReport", "ListJobs", req, FALSE, ""))
              /\ IF failOnErr(FALSE)
                 THEN /\ rep' = [rep EXCEPT !.jobs = << >>, !.j = 1]
                      /\ Finish("ok", NoErr)
                 ELSE /\ Finish("fatal", ErrRemote)
                      /\ UNCHANGED rep
    /\ UNCHANGED <<args, srv, loc, up, srvUpload, srvRun, files, passes>>

\* runReport: svc.ListSuites for the current job; a failure is log.Fatal
RepListSuites ==
    /\ pc = "rep_suites"
    /\ LET job == rep.jobs[rep.j]
           req == [Arn |-> job.arn]
       IN  \/ /\ calls' = Append(calls, Call("runReport", "ListSuites", req, TRUE, ""))
              /\ rep' = [rep EXCEPT !.suites = srv.suites[job.arn], !.s = 1]
              /\ pc' = "rep_suite"
              /\ UNCHANGED result
           \/ /\ calls' = Append(calls, Call("runReport", "ListSuites", req, FALSE, ""))
              /\ IF failOnErr(FALSE)
                 THEN /\ rep' = [rep EXCEPT !.suites = << >>, !.s = 1]
                      /\ pc' = "rep_suite"
                      /\ UNCHANGED result
                 ELSE /\ Finish("fatal", ErrRemote)
                      /\ UNCHANGED rep
    /\ UNCHANGED <<args, srv, loc, up, srvUpload, srvRun, files, passes>>

\* runReport: the next suite of the current job is handed to
\* downloadArtifactsForSuite, which scans the kept listings; after the last suite
\* the next job follows, after the last job runReport returns
RepSuite ==
    /\ pc = "rep_suite"
    /\ IF rep.s > Len(rep.suites)
       THEN IF rep.j < Len(rep.jobs)
            THEN /\ rep' = [rep EXCEPT !.j = @ + 1]
                 /\ pc' = "rep_suites"
                 /\ UNCHANGED result
            ELSE /\ Finish("ok", NoErr)
                 /\ UNCHANGED rep
       ELSE LET suite == rep.suites[rep.s]
                work == SuiteDownloads(DirPrefix(rep.jobs[rep.j], suite),
                                       rep.artifacts, suite)
            IN  /\ IF work = << >>
                   THEN /\ rep' = [rep EXCEPT !.s = @ + 1, !.work = << >>, !.k = 1]
                        /\ pc' = "rep_suite"
                   ELSE /\ rep' = [rep EXCEPT !.work = work, !.k = 1]
                        /\ pc' = "rep_dl"
                /\ UNCHANGED result
    /\ UNCHANGED <<args, srv, loc, up, srvUpload, srvRun, calls, files, passes>>

\* downloadArtifact / downloadURL for the next matched artifact of the suite:
\* os.MkdirAll, os.Create, the GET and the copy; each failure is a panic, the
\* last two after the file was created empty
RepDownload ==
    /\ pc = "rep_dl"
    /\ LET w == rep.work[rep.k]
           req == [Url |-> w.artifact.url]
           n == Len(passes)
           d == [suite |-> rep.suites[rep.s].arn, fileName |-> w.fileName,
                 arn |-> w.artifact.arn, artifactType |-> w.artifactType]
       IN  \/ /\ calls' = Append(calls, Call("downloadURL", "GET", req, TRUE, ""))
              /\ files' = Bind(files, w.fileName, w.artifact.arn)
              /\ passes' = [passes EXCEPT ![n] = Append(@, With(d, [done |-> TRUE]))]
              /\ IF rep.k = Len(rep.work)
                 THEN /\ rep' = [rep EXCEPT !.s = @ + 1, !.k = @ + 1]
                      /\ pc' = "rep_suite"
                 ELSE /\ rep' = [rep EXCEPT !.k = @ + 1]
                      /\ pc' = "rep_dl"
              /\ UNCHANGED result
           \/ /\ Finish("panic", "mkdir or create failed")
              /\ UNCHANGED <<calls, files, passes, rep>>
           \/ /\ calls' = Append(calls, Call("downloadURL", "GET", req, FALSE, ""))
              /\ files' = Bind(files, w.fileName, "")
              /\ passes' = [passes EXCEPT ![n] = Append(@, With(d, [done |-> FALSE]))]
              /\ Finish("panic", "download failed")
              /\ UNCHANGED rep
    /\ UNCHANGED <<args, srv, loc, up, srvUpload, srvRun>>

---------------------------------------------------------------------------
(* Inputs.                                                                 *)

\* all sequences over S of length at most n
SeqsUpTo(S, n) ==
    UNION {[1..m -> S] : m \in 0..n}

\* the sequences of SeqsUpTo(S, n) that repeat no element
DistinctSeqsUpTo(S, n) ==
    {q \in SeqsUpTo(S, n) : \A i, j \in 1..Len(q) : i # j => q[i] # q[j]}

ApkFile ==
    <<"a", ".", "a", "p", "k">>

DeviceName1 ==
    <<"P", " - ", "1">>

\* the call of the end-to-end scenario: a device name, an .apk app file, test
\* type INSTRUMENTATION, a test file, nothing else
BaseArgs ==
    [cmd |-> "schedule", projectArn |-> "proj", runName |-> "nightly",
     deviceArn |-> DeviceName1, devicePoolArn |-> "",
     appArn |-> "", appFile |-> ApkFile, appType |-> "",
     testPackageArn |-> "", testPackageFile |-> <<"t", ".", "j">>,
     testType |-> "INSTRUMENTATION",
     testSpecArn |-> "", testSpecFile |-> << >>]

Device(name, os, arn) ==
    [name |-> name, os |-> os, arn |-> arn]

SuiteArn(id) ==
    <<"arn", ":suite:">> \o id

Suite(id, name) ==
    [arn |-> SuiteArn(id), name |-> name]

\* an artifact of the suite with the given id; its own id ends in /<n>
Artifact(suiteId, n, name, extension) ==
    [arn |-> <<"arn", ":artifact:">> \o suiteId \o <<"/", n>>,
     name |-> name, extension |-> extension,
     url |-> <<"https://">> \o suiteId \o <<"/", n>>]

Job1 ==
    [arn |-> "job1", name |-> <<"j">>, model |-> <<"Pixel">>, os |-> <<"1">>]

BaseSrv ==
    [devices |-> << Device(<<"P">>, <<"1">>, "dev1") >>,
     jobs |-> <<Job1>>,
     suites |-> [a \in {"job1"} |-> << Suite(<<"1">>, <<"s">>) >>],
     artifacts |-> [t \in {"LOG", "SCREENSHOT", "FILE"} |->
        CASE t = "LOG" -> << << Artifact(<<"1">>, "7", <<"n">>, <<"e">>) >> >>
          [] t = "SCREENSHOT" -> << << >> >>
          [] t = "FILE" -> << << Artifact(<<"2">>, "8", <<"n">>, <<"e">>) >> >>]]

\* the state right after the command line is read
InitWith(scenarios) ==
    \E sc \in scenarios :
        /\ args = sc.args
        /\ srv = sc.srv
        /\ pc = IF sc.args.cmd = "report" THEN "rep_getrun" ELSE "sched_app"
        /\ loc = [appArn |-> sc.args.appArn, appType |-> sc.args.appType,
                  devicePoolArn |-> sc.args.devicePoolArn,
                  testPackageArn |-> sc.args.testPackageArn,
                  testSpecArn |-> sc.args.testSpecArn,
                  testPackageType |-> "", testSpecType |-> "", foundArn |-> "",
                  runArn |-> IF sc.args.cmd = "report" THEN RunArn ELSE "",
                  status |-> "", polls |-> 0]
        /\ up = NoUpload
        /\ rep = NoReport
        /\ srvUpload = ""
        /\ srvRun = IF sc.args.cmd = "report" THEN "COMPLETED" ELSE ""
        /\ calls = << >>
        /\ files = << >>
        /\ passes = IF sc.args.cmd = "report" THEN << << >> >> ELSE << >>
        /\ result = Running

Scenario(a, s) ==
    [args |-> a, srv |-> s]

\* an explicit app, an explicit pool, a built-in test: no upload, no pool to make
PlainArgs ==
    With(BaseArgs, [appArn |-> "appX", appFile |-> << >>, devicePoolArn |-> "poolX",
                    deviceArn |-> << >>, testType |-> "BUILTIN_FUZZ",
                    testPackageFile |-> << >>])

\* the report command on a run
ReportArgs ==
    With(PlainArgs, [cmd |-> "report"])

\* the end-to-end schedule call, and the report command on a run of the same
\* service
BaseScenarios ==
    {Scenario(BaseArgs, BaseSrv), Scenario(ReportArgs, BaseSrv)}

\* the schedule command over combinations of its parameters
AppChoices ==
    {[appArn |-> "appX", appFile |-> << >>, appType |-> ""],
     [appArn |-> "appX", appFile |-> ApkFile, appType |-> ""],
     [appArn |-> "", appFile |-> ApkFile, appType |-> "IOS_APP"],
     [appArn |-> "", appFile |-> <<"a", ".", "t">>, appType |-> ""]}

DeviceChoices ==
    {[deviceArn |-> DeviceName1, devicePoolArn |-> "poolX"],
     [deviceArn |-> << >>, devicePoolArn |-> "poolX"],
     [deviceArn |-> << >>, devicePoolArn |-> ""],
     [deviceArn |-> <<"Q", " - ", "1">>, devicePoolArn |-> ""]}

TestChoices ==
    {[testType |-> "BUILTIN_FUZZ", testPackageArn |-> "", testPackageFile |-> << >>],
     [testType |-> "INSTRUMENTATION", testPackageArn |-> "testX",
      testPackageFile |-> << >>],
     [testType |-> "UIAUTOMATOR", testPackageArn |-> "",
      testPackageFile |-> <<"t", ".", "j">>]}

SpecChoices ==
    {[testSpecArn |-> "", testSpecFile |-> << >>],
     [testSpecArn |-> "specX", testSpecFile |-> << >>],
     [testSpecArn |-> "", testSpecFile |-> <<"s", ".", "y">>],
     [testSpecArn |-> "specX", testSpecFile |-> <<"s", ".", "y">>]}

ScheduleScenarios ==
    BaseScenarios
    \cup {Scenario(With(BaseArgs, c), BaseSrv) :
            c \in AppChoices \cup DeviceChoices \cup TestChoices \cup SpecChoices}
    \cup {Scenario(With(With(BaseArgs, d), sp), BaseSrv) :
            d \in DeviceChoices, sp \in SpecChoices}
    \cup {Scenario(With(With(With(BaseArgs, [testPackageFile |-> << >>]), a), d), BaseSrv) :
            a \in AppChoices, d \in DeviceChoices}
    \cup {Scenario(With(With(BaseArgs, t), d), BaseSrv) :
            t \in TestChoices, d \in DeviceChoices}

\* file names for guessAppType
FileChars ==
    {"a", "p", "k", "i", "P", ".", "/"}

FileNames ==
    SeqsUpTo(FileChars, MaxFileLen)

\* test-type names: those of the table, those of the usage text, and others
TestTypeNames ==
    AdvertisedTestTypes
    \cup {"UIAUTOMATER", "APPIUM_WEB_JAVA_TESTNG", "", "instrumentation", "XCUITEST"}

FileScenarios ==
    BaseScenarios
    \cup {Scenario(With(PlainArgs, [appArn |-> "", appFile |-> f]), BaseSrv) :
            f \in FileNames}
    \cup {Scenario(With(PlainArgs, [testType |-> t]), BaseSrv) : t \in TestTypeNames}

\* list-devices answers: devices whose names and OS versions make equal and
\* different composite keys; the ids are distinct
DeviceNames ==
    {<<"P">>, <<"P", " - ", "1">>}

DeviceOses ==
    {<<"1">>, <<"1", " - ", "1">>}

DeviceIds ==
    <<"dev1", "dev2", "dev3", "dev4">>

DeviceLists ==
    {[i \in 1..Len(q) |-> Device(q[i][1], q[i][2], DeviceIds[i])] :
        q \in SeqsUpTo(DeviceNames \X DeviceOses, MaxDevices)}

DeviceKeys ==
    {DeviceName1, <<"P", " - ", "1", " - ", "1">>, <<"Q", " - ", "1">>}

DeviceScenarios ==
    BaseScenarios
    \cup {Scenario(With(PlainArgs, [deviceArn |-> k, devicePoolArn |-> ""]),
                   With(BaseSrv, [devices |-> d])) :
            k \in DeviceKeys, d \in DeviceLists}

\* report listings: suites of which one id is a prefix of another and two share
\* a name; artifacts of these suites with equal and different names
SuiteChoices ==
    {Suite(<<"1">>, <<"s">>), Suite(<<"1", "0">>, <<"t">>), Suite(<<"2">>, <<"s">>)}

LogChoices ==
    {Artifact(<<"1">>, "7", <<"n">>, <<"e">>),
     Artifact(<<"1", "0">>, "7", <<"n">>, <<"e">>),
     Artifact(<<"2">>, "7", <<"m">>, <<"e">>)}

FileChoices ==
    {Artifact(<<"1">>, "8", <<"n">>, <<"e">>),
     Artifact(<<"1", "0">>, "8", <<"m">>, <<"e">>)}

ReportListings ==
    {With(BaseSrv,
          [suites |-> [a \in {"job1"} |-> su],
           artifacts |-> [t \in {"LOG", "SCREENSHOT", "FILE"} |->
              CASE t = "LOG" -> <<lg>>
                [] t = "SCREENSHOT" -> << << >> >>
                [] t = "FILE" -> <<fl>>]]) :
        su \in DistinctSeqsUpTo(SuiteChoices, MaxSuites),
        lg \in DistinctSeqsUpTo(LogChoices, MaxArtifacts),
        fl \in DistinctSeqsUpTo(FileChoices, MaxArtifacts)}

\* listings of which the service answers the LOG category in several pages
PagedListings ==
    {With(BaseSrv,
          [artifacts |-> [t \in {"LOG", "SCREENSHOT", "FILE"} |->
              CASE t = "LOG" -> pg
                [] t = "SCREENSHOT" -> << << >> >>
                [] t = "FILE" -> << << >> >>]]) :
        pg \in DistinctSeqsUpTo({<<a>> : a \in LogChoices}, MaxPages) \ {<< >>}}

\* artifacts of one suite whose names or extensions hold a dot
DottedLogs ==
    {Artifact(<<"1">>, "7", <<"n", ".", "e">>, <<"e">>),
     Artifact(<<"1">>, "9", <<"n">>, <<"e">>)}

DottedFiles ==
    {Artifact(<<"1">>, "8", <<"n">>, <<"e", ".", "e">>)}

DottedListings ==
    {With(BaseSrv,
          [artifacts |-> [t \in {"LOG", "SCREENSHOT", "FILE"} |->
              CASE t = "LOG" -> <<lg>>
                [] t = "SCREENSHOT" -> << << >> >>
                [] t = "FILE" -> <<fl>>]]) :
        lg \in DistinctSeqsUpTo(DottedLogs, MaxArtifacts),
        fl \in DistinctSeqsUpTo(DottedFiles, MaxArtifacts)}

ReportScenarios ==
    BaseScenarios
    \cup {Scenario(ReportArgs, l) :
            l \in ReportListings \cup PagedListings \cup DottedListings}

Init ==
    InitWith(ScheduleScenarios)

InitFiles ==
    InitWith(FileScenarios)

InitDevices ==
    InitWith(DeviceScenarios)

InitReport ==
    InitWith(ReportScenarios)

Next ==
    \/ SchedApp
    \/ UpOpen
    \/ UpCreate
    \/ UpPut
    \/ UpPoll
    \/ SchedPool
    \/ PoolList
    \/ PoolCreate
    \/ SchedTypes
    \/ SchedTest
    \/ SchedSpec
    \/ SchedRun
    \/ SchedPoll
    \/ ReportCmd
    \/ RepGetRun
    \/ RepListArtifacts
    \/ RepListJobs
    \/ RepListSuites
    \/ RepSuite
    \/ RepDownload

\* the schedule command over combinations of its parameters
Spec ==
    Init /\ [][Next]_vars

\* the schedule command over many app file names and test-type names
SpecFiles ==
    InitFiles /\ [][Next]_vars

\* the schedule command over many list-devices answers
SpecDevices ==
    InitDevices /\ [][Next]_vars

\* the report command over many suite and artifact listings
SpecReport ==
    InitReport /\ [][Next]_vars

---------------------------------------------------------------------------
(* Properties.                                                             *)

\* the positions of the log holding a request of the operation
CallIdx(op) ==
    {i \in 1..Len(calls) : calls[i].op = op}

\* how many listed devices have the composite key k
KeyCount(k) ==
    Cardinality({i \in 1..Len(srv.devices) : DeviceKey(srv.devices[i]) = k})

\* the last listed device with the composite key k
LastWithKey(k) ==
    LET hits == {i \in 1..Len(srv.devices) : DeviceKey(srv.devices[i]) = k}
    IN  srv.devices[CHOOSE i \in hits : \A j \in hits : j <= i]

\* list-devices answered and createPoolFromDevice is over, no remote call of it
\* having failed
ResolutionOver ==
    /\ \E i \in CallIdx("ListDevices") : calls[i].ok
    /\ pc # "pool_create"
    /\ \A i \in CallIdx("CreateDevicePool") : calls[i].ok

\* createPoolFromDevice returned a pool
PoolResolved ==
    \E i \in CallIdx("CreateDevicePool") : calls[i].ok

\* a JSON array of strings, as tokens
RECURSIVE JsonElements(_, _)
JsonElements(q, i) ==
    IF i > Len(q)
    THEN << >>
    ELSE (IF i > 1 THEN <<",">> ELSE << >>) \o <<"\"", q[i], "\"">>
         \o JsonElements(q, i + 1)

JsonStringArray(q) ==
    <<"[">> \o JsonElements(q, 1) \o <<"]">>

\* C1 as stated: resolving a pool from a composite key succeeds if and only if
\* exactly one listed device has that key (it does not succeed for a key two
\* devices share).
C1_SucceedsIffExactlyOne ==
    ResolutionOver => (PoolResolved <=> KeyCount(args.deviceArn) = 1)

\* C1 amended: resolving a pool from a composite key succeeds, no remote call
\* failing, if and only if at least one listed device has that key; the pool is
\* made for the last listed device with the key, also when several share it, and
\* with no such device the process exits with the device-not-found failure and
\* no create-device-pool request.
C1_SucceedsIffAtLeastOne ==
    ResolutionOver =>
        /\ PoolResolved <=> KeyCount(args.deviceArn) >= 1
        /\ PoolResolved =>
              \A i \in CallIdx("CreateDevicePool") :
                  calls[i].req.Rules[1].Value
                      = JsonStringArray(<<LastWithKey(args.deviceArn).arn>>)
        /\ KeyCount(args.deviceArn) = 0 =>
              /\ result = [kind |-> "fatal", err |-> ErrDeviceNotFound]
              /\ CallIdx("CreateDevicePool") = {}

\* C1 witness: a pool was resolved from a key that two listed devices share
C1_Witness ==
    /\ PoolResolved
    /\ KeyCount(args.deviceArn) = 2

\* C2: every create-device-pool request is scoped to the given project and holds
\* exactly one rule, attribute "Arn", operator "IN", whose value is the JSON array
\* of exactly one element, the id of a listed device whose composite key is the
\* requested device name; none is issued for a name no listed device matches.
C2_PoolRequestForMatchedDevice ==
    \A i \in CallIdx("CreateDevicePool") :
        LET r == calls[i].req
        IN  /\ r.ProjectArn = args.projectArn
            /\ Len(r.Rules) = 1
            /\ r.Rules[1].Attribute = "Arn"
            /\ r.Rules[1].Operator = "IN"
            /\ \E j \in 1..Len(srv.devices) :
                  /\ DeviceKey(srv.devices[j]) = args.deviceArn
                  /\ r.Rules[1].Value = JsonStringArray(<<srv.devices[j].arn>>)

\* C2 witness: a create-device-pool request was issued against a listing of two
\* devices of which only one has the requested key
C2_Witness ==
    /\ CallIdx("CreateDevicePool") # {}
    /\ Len(srv.devices) = 2
    /\ KeyCount(args.deviceArn) = 1

\* the set of elements of a sequence
Range(q) ==
    {q[i] : i \in 1..Len(q)}

\* scheduleRun is past its first step: there was no app file, or its upload returned
AppStepPassed ==
    \/ args.appFile = << >>
    \/ loc.appArn \in Range(UploadArns)

\* C3: with an explicit device-pool id, that id is the schedule request's
\* device-pool id and neither list-devices nor create-device-pool is called, also
\* when a device id is given too; with neither a pool nor a device, no
\* schedule-run request is issued and the call, once past the app upload, returns
\* the missing-device error.
C3_ExplicitPoolOrError ==
    /\ args.devicePoolArn # "" =>
          /\ CallIdx("ListDevices") = {}
          /\ CallIdx("CreateDevicePool") = {}
          /\ \A i \in CallIdx("ScheduleRun") :
                calls[i].req.DevicePoolArn = args.devicePoolArn
    /\ (args.devicePoolArn = "" /\ args.deviceArn = << >>) =>
          /\ CallIdx("ScheduleRun") = {}
          /\ CallIdx("ListDevices") = {}
          /\ pc \in {"sched_app", "up_open", "up_create", "up_put", "up_poll",
                     "sched_pool", "done"}
          /\ result.kind # "ok"
          /\ (pc = "done" /\ AppStepPassed) =>
                result = [kind |-> "error", err |-> ErrNoDevice]

\* C3 witness: a pool id and a device name were both given and the run was
\* scheduled
C3_Witness ==
    /\ args.devicePoolArn # ""
    /\ args.deviceArn # << >>
    /\ \E i \in CallIdx("ScheduleRun") : calls[i].ok

\* C3, second case reached: neither was given, the app file was uploaded and the
\* call returned the missing-device error
C3_WitnessNeither ==
    /\ args.devicePoolArn = ""
    /\ args.deviceArn = << >>
    /\ CallIdx("CreateUpload") # {}
    /\ result = [kind |-> "error", err |-> ErrNoDevice]

\* the names lookupTestTypes tests for
TableTestTypes ==
    {"APPIUM_JAVA_JUNIT", "INSTRUMENTATION", "UIAUTOMATION", "APPIUM_JAVA_TESTNG",
     "CALABASH", "UIAUTOMATER", "XCTEST", "APPIUM_NODE", "APPIUM_PYTHON",
     "APPIUM_RUBY", "APPIUM_WEB_JAVA_JUNIT", "APPIUM_WEB_JAVA_TESTNG",
     "APPIUM_WEB_PYTHON", "APPIUM_WEB_NODE", "APPIUM_WEB_RUBY", "BUILTIN_EXPLORER",
     "BUILTIN_FUZZ"}

\* scheduleRun has called lookupTestTypes and gone on
TypesMapped ==
    \/ pc \in {"sched_test", "sched_spec", "sched_run", "sched_poll"}
    \/ up.caller \in {"test", "spec"}
    \/ CallIdx("ScheduleRun") # {}

\* scheduleRun has called lookupTestTypes and returned its error
TypesRefused ==
    /\ pc = "done"
    /\ result = [kind |-> "error", err |-> ErrTestType]

\* C4: lookupTestTypes answers every name of its table without error and with a
\* package kind, BUILTIN_FUZZ and BUILTIN_EXPLORER with the package kind "NONE"
\* and an empty spec kind, and every other name with the unknown-test-type error
\* and empty kinds.
C4_TestTypeTable ==
    /\ TypesMapped =>
          /\ args.testType \in TableTestTypes
          /\ loc.testPackageType # ""
          /\ args.testType \in {"BUILTIN_FUZZ", "BUILTIN_EXPLORER"} =>
                (loc.testPackageType = "NONE" /\ loc.testSpecType = "")
          /\ args.testType \notin {"BUILTIN_FUZZ", "BUILTIN_EXPLORER"} =>
                loc.testPackageType # "NONE"
    /\ TypesRefused =>
          /\ args.testType \notin TableTestTypes
          /\ loc.testPackageType = ""
          /\ loc.testSpecType = ""
    /\ (args.cmd = "schedule" /\ pc = "done" /\ AppStepPassed
           /\ args.devicePoolArn # "") =>
          (TypesMapped \/ TypesRefused)

\* C4 witness: BUILTIN_FUZZ was mapped to "NONE" and the run scheduled
C4_Witness ==
    /\ args.testType = "BUILTIN_FUZZ"
    /\ loc.testPackageType = "NONE"
    /\ CallIdx("ScheduleRun") # {}

\* C5: scheduleRun never returns the unknown-test-type error for a name the
\* --test-type usage text lists.
C5_AdvertisedAccepted ==
    TypesRefused => args.testType \notin AdvertisedTestTypes

\* the file name ends in a dot and the three letters, in either case
EndsWithExt(f, x, y, z) ==
    /\ Len(f) >= 4
    /\ f[Len(f) - 3] = "."
    /\ f[Len(f) - 2] \in x
    /\ f[Len(f) - 1] \in y
    /\ f[Len(f)] \in z

IsApk(f) ==
    EndsWithExt(f, {"a", "A"}, {"p", "P"}, {"k", "K"})

IsIpa(f) ==
    EndsWithExt(f, {"i", "I"}, {"p", "P"}, {"a", "A"})

\* scheduleRun has called guessAppType
Guessed ==
    /\ args.appFile # << >>
    /\ args.appType = ""
    /\ pc # "sched_app"

\* C6: guessAppType answers ANDROID_APP for a file name ending in .apk in any
\* letter case, IOS_APP for one ending in .ipa in any letter case, and an error
\* with an empty kind for every other file name.
C6_GuessByExtension ==
    Guessed =>
        IF IsApk(args.appFile)
        THEN loc.appType = "ANDROID_APP" /\ result.err # ErrGuessApp
        ELSE IF IsIpa(args.appFile)
             THEN loc.appType = "IOS_APP" /\ result.err # ErrGuessApp
             ELSE /\ loc.appType = ""
                  /\ result = [kind |-> "error", err |-> ErrGuessApp]
                  /\ calls = << >>

\* C6 witness: a file name ending in .aPk was taken for an Android app and its
\* upload created with that kind
C6_Witness ==
    /\ args.appFile = <<"a", ".", "a", "P", "k">>
    /\ \E i \in CallIdx("CreateUpload") : calls[i].req.Type = "ANDROID_APP"

\* the ids of the uploads created so far
UploadsCreated ==
    {calls[i].out : i \in {j \in CallIdx("CreateUpload") : calls[j].ok}}

\* the status checks of uploadPut's poll loop for one upload, in order
UploadChecks(arn) ==
    SelectSeq(calls, LAMBDA c : c.op = "GetUpload" /\ c.req.Arn = arn)

\* the status checks of scheduleRun's poll loop, in order
RunChecks ==
    SelectSeq(calls, LAMBDA c : c.op = "GetRun" /\ c.site = "scheduleRun")

\* the checks q end with the first answer v, no check having failed: the first v
\* is the answer of check number Len(q)
EndsAtFirst(q, v) ==
    /\ Len(q) >= 1
    /\ \A i \in 1..Len(q) : q[i].ok
    /\ q[Len(q)].out = v
    /\ \A i \in 1..(Len(q) - 1) : q[i].out # v

\* uploadPut returned this upload to scheduleRun, which took its id
UploadReturned(arn) ==
    /\ arn \in {loc.appArn, loc.testPackageArn, loc.testSpecArn}
    /\ ~(pc \in {"up_open", "up_create", "up_put", "up_poll"} /\ up.arn = arn)

\* scheduleRun left its poll loop for runReport
ReportReached ==
    /\ passes # << >>
    /\ pc \in {"rep_getrun", "rep_artifacts", "rep_jobs", "rep_suites", "rep_suite",
               "rep_dl", "done"}
    /\ result.kind # "error"

\* C7: in both poll loops, when the first terminal-success answer (SUCCEEDED for
\* an upload, COMPLETED for a run) is the answer of the N-th status check and no
\* check failed, exactly N checks are issued: none follows it, and the operation
\* goes on (uploadPut returns the upload, scheduleRun starts the report); neither
\* loop is left for success before that answer.
C7_ExactlyNChecks ==
    /\ \A arn \in UploadsCreated :
          LET q == UploadChecks(arn)
          IN  /\ \A i \in 1..Len(q) :
                    (q[i].ok /\ q[i].out = "SUCCEEDED") => i = Len(q)
              /\ (Len(q) >= 1 /\ q[Len(q)].ok /\ q[Len(q)].out = "SUCCEEDED")
                    => UploadReturned(arn)
              /\ UploadReturned(arn) => EndsAtFirst(q, "SUCCEEDED")
              /\ up.arn = arn => up.polls = Len(q)
    /\ LET q == RunChecks
       IN  /\ \A i \in 1..Len(q) :
                 (q[i].ok /\ q[i].out = "COMPLETED") => i = Len(q)
           /\ (Len(q) >= 1 /\ q[Len(q)].ok /\ q[Len(q)].out = "COMPLETED")
                 => ReportReached
           /\ (args.cmd = "schedule" /\ passes # << >>)
                 => (EndsAtFirst(q, "COMPLETED") /\ loc.polls = Len(q))

\* C7 witness: an upload was returned after two status checks, and the report
\* was started after two status checks of the run
C7_Witness ==
    /\ \E arn \in UploadsCreated :
          UploadReturned(arn) /\ Len(UploadChecks(arn)) = 2
    /\ Len(RunChecks) = 2
    /\ ReportReached

\* the suite an artifact was produced by: the one whose id, with the namespace
\* marker replaced, is followed in the artifact's id by the separator
OwnSuite(arn, suiteArn) ==
    HasPrefix(arn, ArtifactPrefix(suiteArn) \o <<"/">>)

\* C8: in a report pass every download is made for the suite the artifact belongs
\* to (its id is the suite id with ":suite:" replaced by ":artifact:", then an
\* artifact-specific suffix), and no artifact is downloaded for two different
\* suites of the run, also when one suite id is a proper prefix of another.
C8_ArtifactInOneSuite ==
    \A n \in 1..Len(passes) :
        /\ \A i \in 1..Len(passes[n]) :
              OwnSuite(passes[n][i].arn, passes[n][i].suite)
        /\ \A i, j \in 1..Len(passes[n]) :
              passes[n][i].arn = passes[n][j].arn
                 => passes[n][i].suite = passes[n][j].suite

\* pass n of runReport ran to its end
PassOver(n) ==
    n < Len(passes) \/ (n = Len(passes) /\ pc = "done" /\ result.kind = "ok")

\* the destination paths written in pass n
PassPaths(n) ==
    {passes[n][i].fileName : i \in 1..Len(passes[n])}

\* the artifact a destination path holds after pass n: the last one written to it
PassBinding(n) ==
    [p \in PassPaths(n) |->
        LET last == CHOOSE i \in 1..Len(passes[n]) :
                        /\ passes[n][i].fileName = p
                        /\ \A j \in 1..Len(passes[n]) :
                              passes[n][j].fileName = p => j <= i
        IN  passes[n][last].arn]

\* C9: two passes of runReport over the same run with unchanged listings write
\* the same set of destination paths, each path holding the same artifact after
\* both passes; the downloads are even made in the same order.
C9_ReportIdempotent ==
    \A m, n \in 1..Len(passes) :
        (PassOver(m) /\ PassOver(n))
            => /\ PassPaths(m) = PassPaths(n)
               /\ PassBinding(m) = PassBinding(n)
               /\ passes[m] = passes[n]

\* C9 witness: two passes ran to their end, each with at least two downloads
C9_Witness ==
    /\ Len(passes) = 2
    /\ PassOver(2)
    /\ Len(passes[1]) >= 2
    /\ Cardinality(PassPaths(2)) >= 2

\* the call of C10: a device name and no pool, an app file ending in .apk with no
\* app id or app type given, test type INSTRUMENTATION with a test file, no test
\* spec
EndToEndCase ==
    /\ args.cmd = "schedule"
    /\ args.deviceArn # << >> /\ args.devicePoolArn = ""
    /\ args.appArn = "" /\ args.appType = "" /\ IsApk(args.appFile)
    /\ args.testType = "INSTRUMENTATION"
    /\ args.testPackageArn = "" /\ args.testPackageFile # << >>
    /\ args.testSpecArn = "" /\ args.testSpecFile = << >>

\* the operations of the log, a run of calls of one operation from one place
\* taken once
RECURSIVE Steps(_)
Steps(n) ==
    IF n = 0
    THEN << >>
    ELSE LET t == <<calls[n].site, calls[n].op>>
             before == Steps(n - 1)
         IN  IF before # << >> /\ before[Len(before)] = t
             THEN before
             ELSE Append(before, t)

EndToEndOrder ==
    << <<"uploadPut", "CreateUpload">>, <<"uploadPut", "PUT">>,
       <<"uploadPut", "GetUpload">>,
       <<"lookupDeviceArn", "ListDevices">>,
       <<"createPoolFromDevice", "CreateDevicePool">>,
       <<"uploadPut", "CreateUpload">>, <<"uploadPut", "PUT">>,
       <<"uploadPut", "GetUpload">>,
       <<"scheduleRun", "ScheduleRun">>, <<"scheduleRun", "GetRun">>,
       <<"runReport", "GetRun">>, <<"runReport", "ListArtifacts">>,
       <<"runReport", "ListJobs">>, <<"runReport", "ListSuites">>,
       <<"downloadURL", "GET">> >>

IsPrefixOf(q, r) ==
    Len(q) <= Len(r) /\ \A i \in 1..Len(q) : q[i] = r[i]

\* the requests of the log with the given operation, in order
RequestsOf(op) ==
    [i \in 1..Len(CallsOf(op)) |-> CallsOf(op)[i].req]

\* C10: for the end-to-end call, no remote call failing, the remote operations
\* of scheduleRun come in the order: create-upload ANDROID_APP (put, polled to
\* SUCCEEDED), list-devices, create-device-pool for the matched device,
\* create-upload INSTRUMENTATION_TEST_PACKAGE (put, polled to SUCCEEDED), one
\* schedule-run request with the two upload ids, the new pool id and no test
\* spec id, get-run polled to COMPLETED, then the report pass; there is no
\* other mutating call.
C10_EndToEndOrder ==
    (EndToEndCase /\ Len(passes) <= 1 /\ \A i \in 1..Len(calls) : calls[i].ok)
    => /\ IsPrefixOf(Steps(Len(calls)), EndToEndOrder)
       /\ \A i \in 1..Len(RequestsOf("CreateUpload")) :
             /\ i <= 2
             /\ RequestsOf("CreateUpload")[i].Type =
                   <<"ANDROID_APP", "INSTRUMENTATION_TEST_PACKAGE">>[i]
             /\ RequestsOf("CreateUpload")[i].Name =
                   <<Base(args.appFile), Base(args.testPackageFile)>>[i]
       /\ Len(CallsOf("PUT")) <= 2
       /\ \A i \in 1..Len(RequestsOf("CreateDevicePool")) :
             /\ i = 1
             /\ KeyCount(args.deviceArn) >= 1
             /\ RequestsOf("CreateDevicePool")[i].Rules =
                   << [Attribute |-> "Arn", Operator |-> "IN",
                       Value |-> <<"[", "\"", LastWithKey(args.deviceArn).arn,
                                   "\"", "]">>] >>
       /\ \A i \in 1..Len(RequestsOf("ScheduleRun")) :
             /\ i = 1
             /\ RequestsOf("ScheduleRun")[i] =
                   [AppArn |-> UploadArns[1], DevicePoolArn |-> PoolArn,
                    Name |-> args.runName, ProjectArn |-> args.projectArn,
                    Test |-> [Type |-> "INSTRUMENTATION",
                              TestPackageArn |-> UploadArns[2],
                              TestSpecArn |-> << >>]]
       /\ \A i \in 1..(Len(calls) - 1) :
             /\ (calls[i].op = "GetUpload" /\ calls[i + 1].op # "GetUpload")
                   => calls[i].out = "SUCCEEDED"
             /\ (calls[i].op = "GetRun" /\ calls[i].site = "scheduleRun"
                    /\ calls[i + 1].site # "scheduleRun")
                   => calls[i].out = "COMPLETED"
       /\ (pc = "done" /\ result.kind = "ok")
             => /\ Len(passes) = 1
                /\ Len(CallsOf("CreateUpload")) = 2
                /\ Len(CallsOf("PUT")) = 2
                /\ Len(CallsOf("CreateDevicePool")) = 1
                /\ Len(CallsOf("ScheduleRun")) = 1
                /\ IsPrefixOf(SubSeq(EndToEndOrder, 1, 13), Steps(Len(calls)))

\* C10 witness: the end-to-end call ran to the end of its report pass, no remote
\* call having failed, both poll loops having waited
C10_Witness ==
    /\ EndToEndCase
    /\ pc = "done" /\ result.kind = "ok"
    /\ Len(passes) = 1 /\ passes[1] # << >>
    /\ \A i \in 1..Len(calls) : calls[i].ok
    /\ Steps(Len(calls)) = EndToEndOrder
    /\ Len(RunChecks) = 2

\* the operations scheduleRun issues before its schedule request
PreScheduleOps ==
    {"CreateUpload", "PUT", "GetUpload", "ListDevices", "CreateDevicePool"}

\* a step of scheduleRun before the schedule request failed: a remote call of
\* an upload or of the pool resolution, the opening of a file, the app-kind
\* guess, the device lookup or the test-type mapping
PreScheduleFailure ==
    \/ \E i \in 1..Len(calls) : calls[i].op \in PreScheduleOps /\ ~calls[i].ok
    \/ result.err \in {ErrGuessApp, ErrOpen, ErrDeviceNotFound, ErrTestType}

\* after a failed step nothing was issued: a failed call is the last of the log,
\* and the log holds only uploads and the pool resolution
NothingAfterFailure ==
    /\ \A i \in 1..Len(calls) : ~calls[i].ok => i = Len(calls)
    /\ \A i \in 1..Len(calls) : calls[i].op \in PreScheduleOps
    /\ passes = << >>
    /\ files = << >>

\* a schedule-run request is in the log only when no step before it failed: the
\* test type is one of the table, the app kind was given or could be guessed,
\* and every call before the request succeeded
ScheduledOnlyAfterSuccess ==
    \A i \in CallIdx("ScheduleRun") :
        /\ lookupTestTypes(args.testType).err = NoErr
        /\ (args.appFile # << >> /\ args.appType = "")
              => guessAppType(args.appFile).err = NoErr
        /\ \A j \in 1..(i - 1) : calls[j].ok

EffectiveSpecArn(i) ==
    IF args.testSpecFile # << >>
    THEN LET made == {j \in CallIdx("CreateUpload") : j < i /\ calls[j].ok}
         IN  IF made = {}
             THEN ""
             ELSE calls[CHOOSE j \in made : \A k \in made : k <= j].out
    ELSE args.testSpecArn

\* C12: the schedule-run request carries a test spec id exactly when the
\* effective test spec id is not empty, and then it is that id; when it is
\* empty the field is absent, not the empty string.
C12_SpecIdIffNonEmpty ==
    \A i \in CallIdx("ScheduleRun") :
        LET field == calls[i].req.Test.TestSpecArn
            id == EffectiveSpecArn(i)
        IN  /\ field # << >> <=> id # ""
            /\ field # << >> => field = <<id>>
            /\ field # <<"">>
            /\ args.testSpecFile # << >>
                  => /\ id \in Range(UploadArns)
                     /\ \E j \in CallIdx("CreateUpload") :
                           /\ calls[j].out = id
                           /\ calls[j].req.Name = Base(args.testSpecFile)
                           /\ calls[j].req.Type = loc.testSpecType

\* C12 witness: a test spec file and a test spec id were both given, and the
\* request carries the id of the uploaded file
C12_Witness ==
    /\ args.testSpecFile # << >>
    /\ args.testSpecArn # ""
    /\ \E i \in CallIdx("ScheduleRun") :
          /\ calls[i].ok
          /\ calls[i].req.Test.TestSpecArn # << >>
          /\ calls[i].req.Test.TestSpecArn # <<args.testSpecArn>>

\* C12, the other case reached: neither was given and the request has no test
\* spec field
C12_WitnessAbsent ==
    /\ args.testSpecFile = << >>
    /\ args.testSpecArn = ""
    /\ \E i \in CallIdx("ScheduleRun") :
          calls[i].ok /\ calls[i].req.Test.TestSpecArn = << >>

\* the artifacts the service holds for the run in one category, all pages of
\* its listing in order
HeldArtifacts(t) ==
    LET RECURSIVE Flat(_)
        Flat(k) == IF k > Len(srv.artifacts[t])
                   THEN << >>
                   ELSE srv.artifacts[t][k] \o Flat(k + 1)
    IN  Flat(1)

\* the suites the service lists for the jobs of the run
HeldSuites ==
    UNION {Range(srv.suites[srv.jobs[j].arn]) : j \in 1..Len(srv.jobs)}

\* C13: a report pass that ran to its end downloaded, for each of the three
\* categories, every artifact the service holds for the run whose id starts
\* with the artifact prefix of a listed suite, also when the listing of the
\* category comes in more than one page.
C13_FullListingDownloaded ==
    \A n \in 1..Len(passes) :
        PassOver(n) =>
            \A t \in Range(ArtifactTypes) :
                \A a \in Range(HeldArtifacts(t)) :
                    \A su \in HeldSuites :
                        Matches(a.arn, ArtifactPrefix(su.arn))
                            => \E i \in 1..Len(passes[n]) :
                                  /\ passes[n][i].arn = a.arn
                                  /\ passes[n][i].suite = su.arn
                                  /\ passes[n][i].artifactType = t

\* the places a report pass issues its calls from
ReportSites ==
    {"runReport", "downloadURL"}

\* the downloads of the current report pass
CurrentPass ==
    passes[Len(passes)]

\* C14: a report pass stops at its first failure. A failed get-run,
\* list-artifacts, list-jobs, list-suites or download is the last call of the
\* log and ends the process, as does a failed directory or file creation; a
\* download that failed is the last download of its pass; and after a failed
\* get-run, list-artifacts or list-jobs the pass has written no file.
C14_ReportFailFast ==
    /\ \A i \in 1..Len(calls) :
          (calls[i].site \in ReportSites /\ ~calls[i].ok)
             => /\ i = Len(calls)
                /\ pc = "done"
                /\ result.kind = IF calls[i].op = "GET" THEN "panic" ELSE "fatal"
                /\ calls[i].op \in {"GetRun", "ListArtifacts", "ListJobs"}
                      => /\ CurrentPass = << >>
                         /\ Len(passes) = 1 => files = << >>
    /\ result.kind = "panic" => pc = "done"
    /\ \A n \in 1..Len(passes) :
          \A k \in 1..Len(passes[n]) :
             ~passes[n][k].done
                => /\ k = Len(passes[n])
                   /\ n = Len(passes)
                   /\ result.kind = "panic"
    /\ (pc \in {"rep_getrun", "rep_artifacts", "rep_jobs", "rep_suites",
                "rep_suite", "rep_dl"})
          => \A i \in 1..Len(calls) : calls[i].ok

\* C14 witness: a download failed after another one of the pass succeeded and
\* the pass stopped there
C14_Witness ==
    /\ passes # << >>
    /\ Len(CurrentPass) >= 2
    /\ ~CurrentPass[Len(CurrentPass)].done
    /\ CurrentPass[1].done
    /\ ~calls[Len(calls)].ok
    /\ pc = "done"

\* C14, a listing failure reached: list-suites failed and the process ended
C14_WitnessListing ==
    /\ calls # << >>
    /\ calls[Len(calls)].op = "ListSuites"
    /\ ~calls[Len(calls)].ok
    /\ result.kind = "fatal"

\* C15: uploadPut returns its Upload only when the most recent get-upload check
\* answered SUCCEEDED. After any other answer, FAILED included, it is still in
\* its poll loop with the next check due, and it has returned neither an Upload
\* nor an error; once FAILED was answered the upload is never returned. The
\* number of checks is limited by nothing but the bound of the model.
C15_OnlySucceededReturns ==
    \A arn \in UploadsCreated :
        LET q == UploadChecks(arn)
        IN  /\ UploadReturned(arn)
                  => /\ Len(q) >= 1
                     /\ q[Len(q)].ok
                     /\ q[Len(q)].out = "SUCCEEDED"
            /\ (/\ Len(q) >= 1
                /\ \A i \in 1..Len(q) : q[i].ok
                /\ q[Len(q)].out # "SUCCEEDED")
                  => /\ pc = "up_poll"
                     /\ up.arn = arn
                     /\ result = Running
                     /\ ~UploadReturned(arn)
                     /\ up.polls < MaxPolls => ENABLED UpPoll
            /\ (\E i \in 1..Len(q) : q[i].ok /\ q[i].out = "FAILED")
                  => /\ ~UploadReturned(arn)
                     /\ CallIdx("ScheduleRun") = {}

\* C15 witness: every check the bound allows was answered FAILED and uploadPut
\* is still in its poll loop
C15_Witness ==
    /\ pc = "up_poll"
    /\ up.polls = MaxPolls
    /\ result = Running
    /\ LET q == UploadChecks(up.arn)
       IN  /\ Len(q) = MaxPolls
           /\ \A i \in 1..Len(q) : q[i].ok /\ q[i].out = "FAILED"

\* call number j of the log is a status check of scheduleRun's poll loop
IsRunCheck(j) ==
    calls[j].site = "scheduleRun" /\ calls[j].op = "GetRun"

\* C16: in scheduleRun every call of the report pass (its get-run,
\* list-artifacts, list-jobs, list-suites, downloads) comes after a poll check
\* that answered COMPLETED, itself after the schedule-run request; so at least
\* one poll check is made before the report, and no poll check follows the one
\* that answered COMPLETED.
C16_ReportAfterCompleted ==
    LET completed == {j \in 1..Len(calls) :
                         IsRunCheck(j) /\ calls[j].ok /\ calls[j].out = "COMPLETED"}
        scheduled == {k \in CallIdx("ScheduleRun") : calls[k].ok}
        checks == {j \in 1..Len(calls) : IsRunCheck(j)}
        report == {i \in 1..Len(calls) : calls[i].site \in ReportSites}
    IN  args.cmd = "schedule"
        => /\ \A i \in report : \E j \in completed : j < i
           /\ \A j \in completed : \E k \in scheduled : k < j
           /\ \A j \in completed : \A i \in checks : i <= j
           /\ \A j \in checks : \E k \in scheduled : k < j
           /\ passes # << >>
                 => /\ Len(RunChecks) >= 1
                    /\ RunChecks[Len(RunChecks)].out = "COMPLETED"
           /\ (pc = "sched_poll" /\ loc.polls = 0) => passes = << >>

\* C16 witness: the run was COMPLETED at the first poll check, and the report
\* pass followed that one check
C16_Witness ==
    /\ args.cmd = "schedule"
    /\ Len(RunChecks) = 1
    /\ RunChecks[1].out = "COMPLETED"
    /\ \E i \in 1..Len(calls) : calls[i].op = "ListArtifacts"

\* call number i of the log is a status check of one of the two poll loops
IsPollCheck(i) ==
    IsRunCheck(i) \/ calls[i].op = "GetUpload"

\* C17: a status check that fails in either poll loop is not retried: it is the
\* last call of the log, scheduleRun has returned its error, the upload was not
\* returned, and neither a schedule-run request (after a failed get-upload) nor
\* a report pass (after either) exists.
C17_PollErrorNotRetried ==
    \A i \in 1..Len(calls) :
        (IsPollCheck(i) /\ ~calls[i].ok)
            => /\ i = Len(calls)
               /\ pc = "done"
               /\ result = [kind |-> "error", err |-> ErrRemote]
               /\ passes = << >>
               /\ \A j \in 1..Len(calls) : calls[j].site \notin ReportSites
               /\ calls[i].op = "GetUpload"
                     => /\ CallIdx("ScheduleRun") = {}
                        /\ ~UploadReturned(calls[i].req.Arn)
               /\ IsRunCheck(i)
                     => Cardinality(CallIdx("ScheduleRun")) = 1

\* C17 witness: the second status check of an upload failed after a first one
\* was answered
C17_Witness ==
    /\ calls # << >>
    /\ calls[Len(calls)].op = "GetUpload"
    /\ ~calls[Len(calls)].ok
    /\ Len(UploadChecks(up.arn)) = 2
    /\ pc = "done"

\* C17, the other loop reached: a status check of the run failed
C17_WitnessRun ==
    /\ calls # << >>
    /\ IsRunCheck(Len(calls))
    /\ ~calls[Len(calls)].ok
    /\ pc = "done"

\* the artifacts matched for the suite at hand, in the order of their download
SuiteWork ==
    IF pc = "rep_dl" THEN rep.work ELSE << >>

\* the index of matched artifact number i within its category: how many matched
\* artifacts of the same category precede it
CategoryIndex(i) ==
    Cardinality({k \in 1..(i - 1) :
                    SuiteWork[k].artifactType = SuiteWork[i].artifactType})

\* matched artifact number i has the path
\* report/<job-name> - <device-model> - <device-os>/<suite-name>/<index>_<name>.<extension>
\* with its index within its category
PathOfIndex(i) ==
    LET job == rep.jobs[rep.j]
        a == SuiteWork[i].artifact
    IN  SuiteWork[i].fileName =
            <<"report/">> \o job.name \o <<" - ">> \o job.model \o <<" - ">> \o job.os
            \o <<"/">> \o rep.suites[rep.s].name \o <<"/">>
            \o Itoa(CategoryIndex(i)) \o <<"_">> \o a.name \o <<".">> \o a.extension

\* two different matched artifacts of the suite at hand
DistinctWork(i, j) ==
    /\ i \in 1..Len(SuiteWork) /\ j \in 1..Len(SuiteWork)
    /\ SuiteWork[i].artifact.arn # SuiteWork[j].artifact.arn

\* C18 as stated: within one suite the index counts the matched artifacts of a
\* category from 0 in listing order, two artifacts of one category never share
\* a path, and two distinct matched artifacts have the same path exactly when
\* their categories differ and their index, name and extension are the same.
C18_SamePathIffSameNameAndExt ==
    /\ \A i \in 1..Len(SuiteWork) : PathOfIndex(i)
    /\ \A i, j \in 1..Len(SuiteWork) :
          DistinctWork(i, j)
             => /\ SuiteWork[i].artifactType = SuiteWork[j].artifactType
                      => SuiteWork[i].fileName # SuiteWork[j].fileName
                /\ SuiteWork[i].fileName = SuiteWork[j].fileName
                      <=> /\ SuiteWork[i].artifactType # SuiteWork[j].artifactType
                          /\ CategoryIndex(i) = CategoryIndex(j)
                          /\ SuiteWork[i].artifact.name = SuiteWork[j].artifact.name
                          /\ SuiteWork[i].artifact.extension
                                = SuiteWork[j].artifact.extension

\* C18 amended: as above, but the paths are the same exactly when the
\* categories differ, the index is the same and <name>.<extension> is the same
\* text, which two artifacts can have with different names and extensions.
C18_SamePathIffSameFileText ==
    /\ \A i \in 1..Len(SuiteWork) : PathOfIndex(i)
    /\ \A i, j \in 1..Len(SuiteWork) :
          DistinctWork(i, j)
             => /\ SuiteWork[i].artifactType = SuiteWork[j].artifactType
                      => SuiteWork[i].fileName # SuiteWork[j].fileName
                /\ SuiteWork[i].fileName = SuiteWork[j].fileName
                      <=> /\ SuiteWork[i].artifactType # SuiteWork[j].artifactType
                          /\ CategoryIndex(i) = CategoryIndex(j)
                          /\ SuiteWork[i].artifact.name \o <<".">>
                                \o SuiteWork[i].artifact.extension
                                = SuiteWork[j].artifact.name \o <<".">>
                                     \o SuiteWork[j].artifact.extension

\* C18 witness: a LOG and a FILE artifact of one suite with the same index, name
\* and extension have the same path, after an artifact of another suite came
\* first in the LOG listing
C18_Witness ==
    \E i, j \in 1..Len(SuiteWork) :
        /\ DistinctWork(i, j)
        /\ SuiteWork[i].artifactType = "LOG" /\ SuiteWork[j].artifactType = "FILE"
        /\ SuiteWork[i].artifact.name = SuiteWork[j].artifact.name
        /\ SuiteWork[i].artifact.extension = SuiteWork[j].artifact.extension
        /\ SuiteWork[i].fileName = SuiteWork[j].fileName
        /\ rep.artifacts["LOG"][1].Artifacts[1].arn # SuiteWork[i].artifact.arn

\* the test type of the call is not in the table of lookupTestTypes
UnknownTestType ==
    lookupTestTypes(args.testType).err # NoErr

\* C19: the test type is examined only after the app upload and the pool
\* resolution. With an unknown test type no test package, no test spec and no
\* run is ever requested; when the unknown-test-type error is returned, the app
\* file, if given, was uploaded and polled to SUCCEEDED, and the pool, if none
\* was given, was created from the device. With neither a device nor a pool the
\* call returns the missing-device error, never the test type error.
C19_TestTypeAfterPool ==
    /\ (args.cmd = "schedule" /\ UnknownTestType)
          => /\ CallIdx("ScheduleRun") = {}
             /\ Cardinality(CallIdx("CreateUpload"))
                   <= IF args.appFile # << >> THEN 1 ELSE 0
             /\ \A i \in CallIdx("CreateUpload") :
                   calls[i].req.Name = Base(args.appFile)
             /\ pc \notin {"sched_test", "sched_spec", "sched_run", "sched_poll"}
             /\ passes = << >>
    /\ result.err = ErrTestType
          => /\ pc = "done"
             /\ result.kind = "error"
             /\ UnknownTestType
             /\ args.appFile # << >>
                   => /\ Cardinality(CallIdx("CreateUpload")) = 1
                      /\ loc.appArn = UploadArns[1]
                      /\ UploadReturned(UploadArns[1])
                      /\ EndsAtFirst(UploadChecks(UploadArns[1]), "SUCCEEDED")
             /\ args.devicePoolArn = ""
                   => /\ args.deviceArn # << >>
                      /\ \E i \in CallIdx("CreateDevicePool") :
                            /\ calls[i].ok
                            /\ i = Len(calls)
                            /\ loc.devicePoolArn = calls[i].out
    /\ (args.cmd = "schedule" /\ args.devicePoolArn = "" /\ args.deviceArn = << >>)
          => /\ result.err # ErrTestType
             /\ (pc = "done" /\ AppStepPassed)
                   => result = [kind |-> "error", err |-> ErrNoDevice]

\* C19 witness: an app file, a device name and an unknown test type: the error
\* was returned after the upload and the pool were made
C19_Witness ==
    /\ result.err = ErrTestType
    /\ args.appFile # << >>
    /\ args.deviceArn # << >> /\ args.devicePoolArn = ""
    /\ Len(UploadChecks(UploadArns[1])) = 2
    /\ \E i \in CallIdx("CreateDevicePool") : calls[i].ok

\* C19, the converse reached: an unknown test type with neither device nor
\* pool, and the call returned the missing-device error
C19_WitnessNoDevice ==
    /\ UnknownTestType
    /\ args.devicePoolArn = "" /\ args.deviceArn = << >>
    /\ result = [kind |-> "error", err |-> ErrNoDevice]

===========================================================================
